---- MODULE Spec2Model ----
(***************************************************************************)
(* Room-scoped event routing of backend/app.py (register_socketio_events). *)
(*                                                                         *)
(* The application keeps no membership table of its own: every handler     *)
(* calls the Flask-SocketIO primitives join_room, leave_room and emit, and *)
(* the membership lives in the server's room table, rooms[room] -> sids.   *)
(* The primitives are modelled by what they do to that table:              *)
(*   - on connect the server enters the sid into the namespace-wide room   *)
(*     (room None) and into a private room named by the sid;               *)
(*   - join_room(r) / leave_room(r) add / discard the sid in rooms[r]; an  *)
(*     emptied room is deleted, which reads the same as an empty one;      *)
(*   - on disconnect the server discards the sid from every room after the *)
(*     application's handler has run;                                      *)
(*   - emit(room=r, skip_sid=s) sends to every sid of rooms[r] that is not *)
(*     equal to s; with no room and no broadcast flag the target is the    *)
(*     sender's private room, with no room and broadcast=True it is the    *)
(*     namespace-wide room.                                                *)
(* Each handler runs to completion as one step (one event at a time).      *)
(***************************************************************************)
EXTENDS Integers, FiniteSets, Sequences, TLC

\* Number of client connections (session ids 1..NumConns).
NumConns == 2

Sids == 1..NumConns

\* Python's None: the value of data.get(k) for an absent key.
NONE == "<None>"

\* class_id values a client may send.  "teachers_c1" is the identifier the
\* alert handler derives for class "c1"; a client may send it like any other.
ClassIds == {"c1", "teachers_c1"}

UserIds == {"u1"}

Roles == {"student", "teacher"}

\* str(x) as an f-string formats it.
PyStr(x) == IF x = NONE THEN "None" ELSE x

\* f'teachers_{class_id}'
TeachersRoom(class_id) == "teachers_" \o PyStr(class_id)

\* The keys the room table can ever hold: None (namespace-wide) and every
\* identifier join_room can be called with.
RoomIds == ClassIds \cup {NONE}

\* rooms[namespace][room], an absent room read as empty.
Members(rms, room) == IF room \in DOMAIN rms THEN rms[room] ELSE {}

VARIABLES
    connected,   \* sids with a live connection
    rooms,       \* the server's room table: RoomIds -> set of sids
    teacherIn,   \* history: <<sid, class_id>> joined with role teacher, not left since
    last,        \* history: the last event handled and who received its envelope
    tasks,       \* SpecTasks: the join_class handlers in flight, one per connection
    wire,        \* SpecOrder: the per-connection send queues and what each received
    auth,        \* SpecAuth: the last request to a protected route and its outcome
    store        \* SpecUsers: the users collection, the register requests in flight
                 \* and the last response

vars == <<connected, rooms, teacherIn, last, tasks, wire, auth, store>>

\* data.get(k, default) for a string field
GetOr(v, default) == IF v = NONE THEN default ELSE v

\* An absent integer field (total_responses is a count, never negative).
NoInt == 0 - 1

\* data.get(k, default) for an integer field
GetIntOr(v, default) == IF v = NoInt THEN default ELSE v

\* ---------------------------------------------------------------- inputs

\* Payloads are complete or lack one field (an absent key reads as None); the
\* payloads that lack a field are drawn for one class.

\* join_class payloads.
JoinFull == [class_id : ClassIds, user_id : UserIds, role : Roles]

JoinOne == {d \in JoinFull : d.class_id = "c1" /\ d.role = "student"}

JoinData == JoinFull
            \cup {[d EXCEPT !.class_id = NONE] : d \in JoinOne}
            \cup {[d EXCEPT !.user_id = NONE] : d \in JoinOne}
            \cup {[d EXCEPT !.role = NONE] : d \in JoinOne}

\* leave_class payloads.  A leave_class without class_id is not drawn: it would
\* call leave_room(None), which acts on the namespace-wide room only.
LeaveFull == [class_id : ClassIds, user_id : UserIds]

LeaveOne == {d \in LeaveFull : d.class_id = "c1"}

LeaveData == LeaveFull \cup {[d EXCEPT !.user_id = NONE] : d \in LeaveOne}

\* poll_response_submitted payloads.
PollFull == [poll_id : {"p1"}, class_id : ClassIds, total_responses : {7}]

PollOne == {d \in PollFull : d.class_id = "c1"}

PollData == PollFull
            \cup {[d EXCEPT !.poll_id = NONE] : d \in PollOne}
            \cup {[d EXCEPT !.class_id = NONE] : d \in PollOne}
            \cup {[d EXCEPT !.total_responses = NoInt] : d \in PollOne}

\* engagement_alert payloads.
AlertFull == [class_id : ClassIds, student_id : {"s5"}, alert_type : {"inactivity"},
              severity : {"high"}, message : {"m"}]

AlertOne == {d \in AlertFull : d.class_id = "c1"}

AlertData == AlertFull
             \cup {[d EXCEPT !.class_id = NONE] : d \in AlertOne}
             \cup {[d EXCEPT !.student_id = NONE] : d \in AlertOne}
             \cup {[d EXCEPT !.alert_type = NONE] : d \in AlertOne}
             \cup {[d EXCEPT !.severity = NONE] : d \in AlertOne}
             \cup {[d EXCEPT !.message = NONE] : d \in AlertOne}

\* The required fields of each inbound tag (the dispatch table of the design):
\* TRUE when the payload lacks one of them.
JoinMissing(d) == d.class_id = NONE \/ d.user_id = NONE \/ d.role = NONE

LeaveMissing(d) == d.class_id = NONE \/ d.user_id = NONE

PollMissing(d) == d.poll_id = NONE \/ d.class_id = NONE \/ d.total_responses = NoInt

AlertMissing(d) == d.class_id = NONE \/ d.student_id = NONE \/ d.alert_type = NONE
                   \/ d.severity = NONE \/ d.message = NONE

\* ------------------------------------------------- Flask-SocketIO primitives

\* Mutant of join_room: the room entry is created anew on every join.
join_room_Replace(rms, sid, room) == [rms EXCEPT ![room] = {sid}]

\* Mutant of join_room: entering a room the sid is already in drops the entry.
join_room_Toggle(rms, sid, room) ==
    [rms EXCEPT ![room] = IF sid \in @ THEN @ \ {sid} ELSE @ \cup {sid}]

\* join_room(room): rooms[room][sid] = ... (a dict entry: entering twice is one entry).
join_room(rms, sid, room) == [rms EXCEPT ![room] = @ \cup {sid}]

\* Mutant of leave_room: a sid that is not in the room makes the KeyError path
\* delete the room entry.
leave_room_DropRoom(rms, sid, room) ==
    [rms EXCEPT ![room] = IF sid \in @ THEN @ \ {sid} ELSE {}]

\* Mutant of leave_room: the whole room entry is deleted, not the sid's entry.
leave_room_Clear(rms, sid, room) == [rms EXCEPT ![room] = {}]

\* leave_room(room): del rooms[room][sid], a KeyError ignored.
leave_room(rms, sid, room) == [rms EXCEPT ![room] = @ \ {sid}]

\* Mutant of DisconnectRooms: no cleanup, the table keeps the closed sid.
DisconnectRooms_Keep(rms, sid) == rms

\* What the server does to the room table when a connection closes: the sid leaves
\* every room it is in.
DisconnectRooms(rms, sid) == [r \in DOMAIN rms |-> rms[r] \ {sid}]

\* rooms(sid): the rooms a sid is in, computed from the room table (the
\* namespace-wide room is not listed).
get_rooms(rms, sid) == {r \in DOMAIN rms : r # NONE /\ sid \in rms[r]}

\* Mutant of Emit: a room without participants falls back to the whole namespace.
Emit_Fallback(rms, sid, room, broadcast, skip) ==
    LET participants == IF room = NONE /\ ~broadcast THEN {sid}
                        ELSE IF Members(rms, room) = {} THEN Members(rms, NONE)
                        ELSE Members(rms, room)
    IN  {p \in participants : p \notin skip}

\* Mutant of Emit: the room argument is ignored, everyone in the namespace is sent to.
Emit_Namespace(rms, sid, room, broadcast, skip) ==
    {p \in Members(rms, NONE) : p \notin skip}

\* emit(event, payload, room=room, broadcast=broadcast, skip_sid=...): the set of
\* sids the envelope is sent to.  `skip` is the set of sids that compare equal
\* to the skip_sid argument.
Emit(rms, sid, room, broadcast, skip) ==
    LET participants == IF room = NONE /\ ~broadcast
                        THEN {sid}                    \* to = request.sid
                        ELSE Members(rms, room)
    IN  {p \in participants : p \notin skip}

\* skip_sid=True at the user_joined call site: the server compares every
\* participant's sid (a string) with the value True; none is equal, nobody is skipped.
JoinSkipSid(sid) == {}

\* The audience of user_joined: emit(..., room=class_id, skip_sid=True).
JoinAudience(rms, sid, class_id) == Emit(rms, sid, class_id, FALSE, JoinSkipSid(sid))

\* Mutant of PollAudience: the sender is skipped (include_self=False).
PollAudience_SkipSelf(rms, sid, class_id) == Emit(rms, sid, class_id, TRUE, {sid})

\* Mutant of PollAudience: a sender outside the room is turned away.
PollAudience_MembersOnly(rms, sid, class_id) ==
    IF sid \in Members(rms, class_id) THEN Emit(rms, sid, class_id, TRUE, {}) ELSE {}

\* The audience of poll_updated: emit(..., room=class_id, broadcast=True).
PollAudience(rms, sid, class_id) == Emit(rms, sid, class_id, TRUE, {})

\* The audience of engagement_alert_received: emit(..., room=f'teachers_{class_id}').
AlertAudience(rms, sid, class_id) == Emit(rms, sid, TeachersRoom(class_id), FALSE, {})

\* Mutant of PollPayload: the count is recomputed (one more response), not forwarded.
PollPayload_Recount(poll_id, data) ==
    [poll_id |-> poll_id, total_responses |-> GetIntOr(data.total_responses, 0) + 1]

\* The payload of poll_updated (the timestamp left out).
PollPayload(poll_id, data) ==
    [poll_id |-> poll_id, total_responses |-> GetIntOr(data.total_responses, 0)]

\* The payload of engagement_alert_received (the timestamp left out).
AlertPayload(student_id, alert_type, data) ==
    [student_id |-> student_id, alert_type |-> alert_type,
     severity |-> data.severity, message |-> data.message]

\* -------------------------------------------------------------- history

\* How the event now handled follows the previous one: "join_new" / "join_member"
\* when the previous event was a join_class of the same class_id by the same sid
\* (made as a non-member / as a member), "leave" when it was its leave_class.
Chain(sid, class_id) ==
    IF last.sid = sid /\ last.class_id = class_id /\ class_id # NONE
    THEN CASE last.tag = "join_class" ->
                  IF sid \in last.before THEN "join_member" ELSE "join_new"
           [] last.tag = "leave_class" -> "leave"
           [] OTHER -> "none"
    ELSE "none"

\* The record of one handled event: the inbound tag, its sender and class_id,
\* whether a required field was absent, the outbound tag, payload and the sids it
\* was sent to, members(class_id) before the event (join_class, leave_class), how
\* it follows the previous event, the rooms the sender held (disconnect), and the
\* inbound payload.
Event(tag, sid, class_id, missing, out, payload, audience, before, chain, held, data) ==
    [tag |-> tag, sid |-> sid, class_id |-> class_id, missing |-> missing,
     out |-> out, payload |-> payload, audience |-> audience, before |-> before,
     chain |-> chain, held |-> held, data |-> data]

\* ------------------------------------------------------------------ state

\* No handler in flight.
TasksInit ==
    [pc |-> [s \in Sids |-> "idle"], req |-> [s \in Sids |-> NONE], done |-> {},
     raced |-> [s \in Sids |-> "no"], together |-> FALSE]

\* Nothing queued, nothing received.
WireInit ==
    [outq |-> [s \in Sids |-> <<>>], recv |-> [s \in Sids |-> <<>>], seqno |-> 0]

\* No request made yet.
AuthInit ==
    [asked |-> FALSE, header |-> [present |-> FALSE, atoms |-> <<>>],
     required_role |-> NONE, now |-> 0, status |-> 0, error |-> NONE,
     ran |-> FALSE, user_role |-> NONE]

\* Register requests that can be in flight together.
NumReqs == 2
Reqs == 1..NumReqs

\* The users collection is empty, no request is in flight.
StoreInit ==
    [users |-> <<>>,
     reg |-> [r \in Reqs |-> [pc |-> "idle", data |-> <<>>]],
     registered |-> {},
     resp |-> [op |-> "none", status |-> 0, data |-> <<>>, token |-> <<>>,
               before |-> <<>>, user_id |-> NONE]]

Init ==
    /\ connected = {}
    /\ rooms = [r \in RoomIds |-> {}]
    /\ teacherIn = {}
    /\ last = Event("init", 0, NONE, FALSE, NONE, <<>>, {}, {}, "none", {}, <<>>)
    /\ tasks = TasksInit
    /\ wire = WireInit
    /\ auth = AuthInit
    /\ store = StoreInit

\* Mutant of handle_connect: 'connected' is emitted with broadcast=True.
handle_connect_Broadcast(sid) ==
    /\ sid \notin connected
    /\ connected' = connected \cup {sid}
    /\ rooms' = join_room(rooms, sid, NONE)
    /\ teacherIn' = teacherIn
    /\ last' = Event("connect", sid, NONE, FALSE, "connected",
                     [message |-> "Connected to AMEP server"],
                     Emit(rooms', sid, NONE, TRUE, {}), {}, "none", {}, <<>>)

\* handle_connect: the server has entered the sid into the namespace-wide room;
\* the handler emits 'connected' with no room, i.e. to the connecting sid.
handle_connect(sid) ==
    /\ sid \notin connected
    /\ connected' = connected \cup {sid}
    /\ rooms' = join_room(rooms, sid, NONE)
    /\ teacherIn' = teacherIn
    /\ last' = Event("connect", sid, NONE, FALSE, "connected",
                     [message |-> "Connected to AMEP server"],
                     Emit(rooms', sid, NONE, FALSE, {}), {}, "none", {}, <<>>)

\* handle_disconnect: the handler only prints; the server then removes the sid
\* from every room.
handle_disconnect(sid) ==
    /\ sid \in connected
    /\ connected' = connected \ {sid}
    /\ rooms' = DisconnectRooms(rooms, sid)
    /\ teacherIn' = {p \in teacherIn : p[1] # sid}
    /\ last' = Event("disconnect", sid, NONE, FALSE, NONE, <<>>, {}, {}, "none",
                     get_rooms(rooms, sid), <<>>)

\* Mutant of handle_join_class: a join with role teacher also enters the teacher
\* room of the class.
handle_join_class_Derived(sid, data) ==
    LET class_id  == data.class_id
        user_role == GetOr(data.role, "student")
        derived   == TeachersRoom(class_id)
        entered   == join_room(rooms, sid, class_id)
    IN  /\ sid \in connected
        /\ rooms' = IF user_role = "teacher" /\ derived \in DOMAIN rooms
                    THEN join_room(entered, sid, derived)
                    ELSE entered
        /\ connected' = connected
        /\ teacherIn' = IF user_role = "teacher" /\ class_id # NONE
                        THEN teacherIn \cup {<<sid, class_id>>}
                        ELSE teacherIn
        /\ last' = Event("join_class", sid, class_id, JoinMissing(data), "user_joined",
                         [user_id |-> data.user_id, role |-> user_role],
                         JoinAudience(rooms', sid, class_id),
                         Members(rooms, class_id), Chain(sid, class_id), {}, data)

\* handle_join_class
handle_join_class(sid, data) ==
    LET class_id  == data.class_id
        user_id   == data.user_id
        user_role == GetOr(data.role, "student")
    IN  /\ sid \in connected
        /\ rooms' = join_room(rooms, sid, class_id)
        /\ connected' = connected
        /\ teacherIn' = IF user_role = "teacher" /\ class_id # NONE
                        THEN teacherIn \cup {<<sid, class_id>>}
                        ELSE teacherIn
        /\ last' = Event("join_class", sid, class_id, JoinMissing(data), "user_joined",
                         [user_id |-> user_id, role |-> user_role],
                         JoinAudience(rooms', sid, class_id),
                         Members(rooms, class_id), Chain(sid, class_id), {}, data)

\* handle_leave_class
handle_leave_class(sid, data) ==
    LET class_id == data.class_id
    IN  /\ sid \in connected
        /\ rooms' = leave_room(rooms, sid, class_id)
        /\ connected' = connected
        /\ teacherIn' = teacherIn \ {<<sid, class_id>>}
        /\ last' = Event("leave_class", sid, class_id, LeaveMissing(data), NONE, <<>>,
                         {}, Members(rooms, class_id), Chain(sid, class_id), {}, data)

\* Mutant of handle_poll_response: the handler also enters the sender into the room.
handle_poll_response_Joins(sid, data) ==
    /\ sid \in connected
    /\ rooms' = join_room(rooms, sid, data.class_id)
    /\ UNCHANGED <<connected, teacherIn>>
    /\ last' = Event("poll_response_submitted", sid, data.class_id, PollMissing(data),
                     "poll_updated", PollPayload(data.poll_id, data),
                     PollAudience(rooms', sid, data.class_id), {}, "none", {}, data)

\* handle_poll_response
handle_poll_response(sid, data) ==
    LET poll_id  == data.poll_id
        class_id == data.class_id
    IN  /\ sid \in connected
        /\ UNCHANGED <<connected, rooms, teacherIn>>
        /\ last' = Event("poll_response_submitted", sid, class_id, PollMissing(data),
                         "poll_updated",
                         PollPayload(poll_id, data),
                         PollAudience(rooms, sid, class_id), {}, "none", {}, data)

\* handle_engagement_alert
handle_engagement_alert(sid, data) ==
    LET class_id   == data.class_id
        student_id == data.student_id
        alert_type == data.alert_type
    IN  /\ sid \in connected
        /\ UNCHANGED <<connected, rooms, teacherIn>>
        /\ last' = Event("engagement_alert", sid, class_id, AlertMissing(data),
                         "engagement_alert_received",
                         AlertPayload(student_id, alert_type, data),
                         AlertAudience(rooms, sid, class_id), {}, "none", {}, data)

Next ==
    \E sid \in Sids :
        \/ handle_connect(sid) /\ UNCHANGED <<tasks, wire, auth, store>>
        \/ handle_disconnect(sid) /\ UNCHANGED <<tasks, wire, auth, store>>
        \/ \E data \in JoinData :
               handle_join_class(sid, data) /\ UNCHANGED <<tasks, wire, auth, store>>
        \/ \E data \in LeaveData :
               handle_leave_class(sid, data) /\ UNCHANGED <<tasks, wire, auth, store>>
        \/ \E data \in PollData :
               handle_poll_response(sid, data) /\ UNCHANGED <<tasks, wire, auth, store>>
        \/ \E data \in AlertData :
               handle_engagement_alert(sid, data) /\ UNCHANGED <<tasks, wire, auth, store>>

Spec == Init /\ [][Next]_vars

\* A class_id of the form 'teachers_X'.
IsTeachersRoomId(class_id) ==
    \E x \in ClassIds \cup {NONE} : class_id = "teachers_" \o PyStr(x)

\* The join_class payloads whose class_id is not of the form 'teachers_X'.
PlainJoinData == {d \in JoinData : ~IsTeachersRoomId(d.class_id)}

\* The runs in which no join_class names a teacher room.
NextPlain ==
    \E sid \in Sids :
        \/ handle_connect(sid) /\ UNCHANGED <<tasks, wire, auth, store>>
        \/ handle_disconnect(sid) /\ UNCHANGED <<tasks, wire, auth, store>>
        \/ \E data \in PlainJoinData :
               handle_join_class(sid, data) /\ UNCHANGED <<tasks, wire, auth, store>>
        \/ \E data \in LeaveData :
               handle_leave_class(sid, data) /\ UNCHANGED <<tasks, wire, auth, store>>
        \/ \E data \in PollData :
               handle_poll_response(sid, data) /\ UNCHANGED <<tasks, wire, auth, store>>
        \/ \E data \in AlertData :
               handle_engagement_alert(sid, data) /\ UNCHANGED <<tasks, wire, auth, store>>

SpecPlainJoins == Init /\ [][NextPlain]_vars

\* ------------------------------------------------- handlers as green threads
\* async_mode='eventlet': the server starts one green thread per inbound event and
\* a green thread runs until it blocks on I/O.  A join_class handler is therefore
\* three steps: the event is received and its handler spawned; the handler runs
\* up to and including join_room (the server first looks the sid up and ignores
\* the event of a connection it no longer knows); the handler emits and ends.  A
\* connect or a disconnect is one step.  Each connection has at most one handler
\* in flight, and a closed connection's session id is not reused while its
\* handler is pending.

\* Mutant of Dispatched: the handler runs whether or not the sid is still known.
Dispatched_Always(conn, sid) == TRUE

\* Whether the server runs the handler of an event of `sid`: it has the sid's
\* connection on record.
Dispatched(conn, sid) == sid \in conn

\* All connections have a join_class of `class_id` in flight.
AllInFlight(pc, req, class_id) ==
    \A c \in Sids : pc[c] # "idle" /\ req[c] = class_id

task_connect(sid) ==
    /\ sid \notin connected
    /\ tasks.pc[sid] = "idle"
    /\ connected' = connected \cup {sid}
    /\ rooms' = join_room(rooms, sid, NONE)
    /\ tasks' = [tasks EXCEPT !.raced[sid] = "no"]
    /\ UNCHANGED <<teacherIn, last, wire, auth, store>>

\* The disconnect of a connection, whatever its handler is doing.
task_disconnect(sid) ==
    /\ sid \in connected
    /\ connected' = connected \ {sid}
    /\ rooms' = DisconnectRooms(rooms, sid)
    /\ tasks' = [tasks EXCEPT !.raced[sid] = IF tasks.pc[sid] = "idle" THEN "no"
                                              ELSE tasks.pc[sid],
                              !.done = {p \in @ : p[1] # sid},
                              !.together = FALSE]
    /\ UNCHANGED <<teacherIn, last, wire, auth, store>>

\* A join_class event arrives: its handler is spawned.
receive_join(sid, class_id) ==
    /\ sid \in connected
    /\ tasks.pc[sid] = "idle"
    /\ LET pc2  == [tasks.pc EXCEPT ![sid] = "spawned"]
           req2 == [tasks.req EXCEPT ![sid] = class_id]
       IN  tasks' = [tasks EXCEPT
                        !.pc = pc2, !.req = req2,
                        !.done = @ \ {<<sid, class_id>>},
                        !.together =
                            IF AllInFlight(pc2, req2, class_id) THEN TRUE
                            ELSE IF \A c \in Sids : tasks.pc[c] = "idle" THEN FALSE
                            ELSE @]
    /\ UNCHANGED <<connected, rooms, teacherIn, last, wire, auth, store>>

\* The handler runs: class_id = data.get('class_id'); join_room(class_id).
run_join(sid) ==
    /\ tasks.pc[sid] = "spawned"
    /\ IF Dispatched(connected, sid)
       THEN /\ rooms' = join_room(rooms, sid, tasks.req[sid])
            /\ tasks' = [tasks EXCEPT !.pc[sid] = "entered"]
       ELSE /\ rooms' = rooms
            /\ tasks' = [tasks EXCEPT !.pc[sid] = "idle"]
    /\ UNCHANGED <<connected, teacherIn, last, wire, auth, store>>

\* The handler emits user_joined and ends.
emit_join(sid) ==
    /\ tasks.pc[sid] = "entered"
    /\ tasks' = [tasks EXCEPT !.pc[sid] = "idle",
                              !.done = IF sid \in connected
                                       THEN @ \cup {<<sid, tasks.req[sid]>>}
                                       ELSE @]
    /\ UNCHANGED <<connected, rooms, teacherIn, last, wire, auth, store>>

NextTasks ==
    \E sid \in Sids :
        \/ task_connect(sid)
        \/ task_disconnect(sid)
        \/ \E class_id \in ClassIds : receive_join(sid, class_id)
        \/ run_join(sid)
        \/ emit_join(sid)

SpecTasks == Init /\ [][NextTasks]_vars

\* ------------------------------------------------------- delivery order
\* emit hands the envelope to the send queue of every recipient's connection, in
\* one go; each connection's writer sends its queue in order.  The handlers are
\* stamped with the order in which they are processed.

\* The number of envelopes emitted in a run.
MaxEvents == 4

\* Mutant of Enqueue: the packet is put at the front of the queue.
Enqueue_Front(q, env) == <<env>> \o q

\* A connection's send queue takes a packet.
Enqueue(q, env) == Append(q, env)

\* emit to `audience`: the next stamp, and the envelope in each recipient's queue.
Send(w, audience, room, out) ==
    LET env == [seq |-> w.seqno + 1, room |-> room, out |-> out]
    IN  [w EXCEPT !.seqno = @ + 1,
                  !.outq = [s \in Sids |-> IF s \in audience
                                           THEN Enqueue(w.outq[s], env)
                                           ELSE w.outq[s]]]

order_connect(sid) ==
    /\ sid \notin connected
    /\ wire.seqno < MaxEvents
    /\ connected' = connected \cup {sid}
    /\ rooms' = join_room(rooms, sid, NONE)
    /\ wire' = Send([wire EXCEPT !.recv[sid] = <<>>],
                    Emit(rooms', sid, NONE, FALSE, {}), NONE, "connected")
    /\ UNCHANGED <<teacherIn, last, tasks, auth, store>>

\* The connection closes: what its queue still holds is not sent.
order_disconnect(sid) ==
    /\ sid \in connected
    /\ connected' = connected \ {sid}
    /\ rooms' = DisconnectRooms(rooms, sid)
    /\ wire' = [wire EXCEPT !.outq[sid] = <<>>]
    /\ UNCHANGED <<teacherIn, last, tasks, auth, store>>

order_join_class(sid, class_id) ==
    /\ sid \in connected
    /\ wire.seqno < MaxEvents
    /\ rooms' = join_room(rooms, sid, class_id)
    /\ wire' = Send(wire, JoinAudience(rooms', sid, class_id), class_id, "user_joined")
    /\ UNCHANGED <<connected, teacherIn, last, tasks, auth, store>>

order_leave_class(sid, class_id) ==
    /\ sid \in connected
    /\ sid \in rooms[class_id]
    /\ rooms' = leave_room(rooms, sid, class_id)
    /\ UNCHANGED <<connected, teacherIn, last, tasks, wire, auth, store>>

order_poll_response(sid, class_id) ==
    /\ sid \in connected
    /\ wire.seqno < MaxEvents
    /\ wire' = Send(wire, PollAudience(rooms, sid, class_id), class_id, "poll_updated")
    /\ UNCHANGED <<connected, rooms, teacherIn, last, tasks, auth, store>>

\* The writer of a connection sends the packet at the head of its queue.
deliver(sid) ==
    /\ wire.outq[sid] # <<>>
    /\ wire' = [wire EXCEPT !.recv[sid] = Append(@, Head(wire.outq[sid])),
                            !.outq[sid] = Tail(@)]
    /\ UNCHANGED <<connected, rooms, teacherIn, last, tasks, auth, store>>

NextOrder ==
    \E sid \in Sids :
        \/ order_connect(sid)
        \/ order_disconnect(sid)
        \/ \E class_id \in ClassIds : order_join_class(sid, class_id)
        \/ \E class_id \in ClassIds : order_leave_class(sid, class_id)
        \/ \E class_id \in ClassIds : order_poll_response(sid, class_id)
        \/ deliver(sid)

SpecOrder == Init /\ [][NextOrder]_vars

\* ------------------------------------------------------------------ claims

\* C1: after a disconnect of connection C, whatever rooms it had joined and
\* without any leave_class, no room contains C.
C1_DisconnectLeavesEveryRoom ==
    /\ last.tag = "disconnect" => \A r \in DOMAIN rooms : last.sid \notin rooms[r]
    /\ \A r \in DOMAIN rooms : rooms[r] \subseteq connected

\* C1 witness: a connection that held two rooms has disconnected.
C1_Witness ==
    /\ last.tag = "disconnect"
    /\ Cardinality(last.held) >= 2
    /\ \E r \in last.held : rooms[r] # {}

\* C2 (as claimed): every connection that joined class X with role teacher and
\* has not left or disconnected receives the engagement_alert_received of an
\* engagement_alert with class_id = X.
C2_TeacherReceivesAlert ==
    (last.tag = "engagement_alert" /\ last.class_id \in ClassIds)
        => \A c \in connected :
               <<c, last.class_id>> \in teacherIn => c \in last.audience

\* C3 (as claimed): every connection that receives engagement_alert_received for
\* class_id = X joined room X with role teacher.
C3_OnlyTeachersReceiveAlert ==
    last.tag = "engagement_alert"
        => \A c \in last.audience : <<c, last.class_id>> \in teacherIn

\* C4 (as claimed): the user_joined of a join_class(R) from C goes to every
\* member of R except C: C is not in the audience, which is members(R) \ {C}.
C4_UserJoinedSkipsSender ==
    (last.tag = "join_class" /\ last.class_id # NONE)
        => /\ last.sid \notin last.audience
           /\ last.audience = Members(rooms, last.class_id) \ {last.sid}
           /\ Cardinality(last.audience) = Cardinality(Members(rooms, last.class_id)) - 1

\* C5: a poll_response_submitted with class_id = R sent by a member of R yields a
\* poll_updated sent to all current members of R, the sender included.
C5_PollReachesAllMembers ==
    (/\ last.tag = "poll_response_submitted"
     /\ last.class_id # NONE
     /\ last.sid \in Members(rooms, last.class_id))
        => /\ last.out = "poll_updated"
           /\ last.audience = Members(rooms, last.class_id)
           /\ last.sid \in last.audience

\* C5 witness: a member's poll response went out to a room of two members.
C5_Witness ==
    /\ last.tag = "poll_response_submitted"
    /\ last.class_id # NONE
    /\ last.sid \in Members(rooms, last.class_id)
    /\ Cardinality(last.audience) >= 2

\* C6: every recipient of a user_joined or poll_updated for room R is a member of R
\* at dispatch (the table the handler leaves is the table it dispatched from).
C6_AudienceWithinRoom ==
    (last.out \in {"user_joined", "poll_updated"} /\ last.class_id # NONE)
        => last.audience \subseteq Members(rooms, last.class_id)

\* C6 witness: a room envelope went out while a connected sid, member of another
\* room only, stayed outside its audience.
C6_Witness ==
    /\ last.out \in {"user_joined", "poll_updated"}
    /\ last.class_id # NONE
    /\ last.audience # {}
    /\ \E c \in connected :
           /\ c \notin Members(rooms, last.class_id)
           /\ get_rooms(rooms, c) # {}
           /\ c \notin last.audience

\* C7 (as claimed): an inbound event that lacks a required field changes no room
\* membership and produces no outbound envelope.
C7_MalformedDropped ==
    [][last'.missing => (rooms' = rooms /\ last'.audience = {})]_vars

\* C9 (as claimed): join_class(R) by C followed by leave_class(R) by C leaves
\* members(R) as it was before the join, from every prior state.
C9_JoinLeaveRestores ==
    [][(/\ last'.tag = "leave_class"
        /\ last'.chain \in {"join_new", "join_member"})
           => Members(rooms', last.class_id) = last.before]_vars

\* C9 (amended): when C was not a member of R before the join, join_class(R) by C
\* followed by leave_class(R) by C leaves members(R) as it was before the join.
C9_JoinLeaveRestoresNonMember ==
    [][(/\ last'.tag = "leave_class"
        /\ last'.chain = "join_new")
           => Members(rooms', last.class_id) = last.before]_vars

\* C9 witness: C joined R as a non-member and left it again, another member staying.
C9_Witness ==
    /\ last.tag = "leave_class"
    /\ last.chain = "join_new"
    /\ Members(rooms, last.class_id) # {}
    /\ last.sid \notin Members(rooms, last.class_id)

\* C10: a second join_class(R) in a row from C changes no membership (members(R)
\* and C's joined rooms stay as the first join left them), so over the two joins
\* |members(R)| has grown by exactly 1 from a state where C was not a member.
C10_JoinIdempotent ==
    [][(/\ last'.tag = "join_class"
        /\ last'.chain \in {"join_new", "join_member"})
           => /\ rooms' = rooms
              /\ get_rooms(rooms', last'.sid) = get_rooms(rooms, last.sid)
              /\ last'.chain = "join_new" =>
                     Cardinality(Members(rooms', last.class_id))
                         = Cardinality(last.before) + 1]_vars

\* C10 witness: C joined R twice in a row, R holding another member too.
C10_Witness ==
    /\ last.tag = "join_class"
    /\ last.chain = "join_new"
    /\ last.sid \in Members(rooms, last.class_id)
    /\ Cardinality(Members(rooms, last.class_id)) >= 2

\* C11: a leave_class(R) from a connection that is not a member of R (never
\* joined, already left, nobody ever in R) changes the membership of no room, and
\* a second leave_class(R) in a row changes nothing beyond the first.
C11_LeaveNonMemberNoOp ==
    [][(/\ last'.tag = "leave_class"
        /\ (last'.sid \notin last'.before \/ last'.chain = "leave"))
           => /\ rooms' = rooms
              /\ connected' = connected]_vars

\* C11 witness: C left R twice in a row while another connection stays in R.
C11_Witness ==
    /\ last.tag = "leave_class"
    /\ last.chain = "leave"
    /\ last.sid \notin last.before
    /\ Members(rooms, last.class_id) # {}

\* C15: handling poll_response_submitted or engagement_alert leaves the members
\* of every room and the joined rooms of every connection unchanged.
C15_ForwardingReadOnly ==
    [][(last'.tag \in {"poll_response_submitted", "engagement_alert"})
           => /\ rooms' = rooms
              /\ connected' = connected
              /\ \A c \in Sids : get_rooms(rooms', c) = get_rooms(rooms, c)]_vars

\* C15 witness: a poll response was handled while its sender was outside the
\* room the event names, which has members.
C15_Witness ==
    /\ last.tag = "poll_response_submitted"
    /\ last.class_id # NONE
    /\ last.sid \notin Members(rooms, last.class_id)
    /\ Members(rooms, last.class_id) # {}

C17_EmptyAudienceNoOp ==
    [][(\/ /\ last'.tag = "poll_response_submitted"
           /\ last'.class_id # NONE
           /\ Members(rooms, last'.class_id) = {}
        \/ /\ last'.tag = "engagement_alert"
           /\ Members(rooms, TeachersRoom(last'.class_id)) = {})
           => /\ last'.audience = {}
              /\ rooms' = rooms
              /\ connected' = connected]_vars

\* C17 witness: an alert was handled for a class a teacher has joined, while the
\* teacher room of the class had no participant.
C17_Witness ==
    /\ last.tag = "engagement_alert"
    /\ last.class_id \in ClassIds
    /\ \E c \in connected : <<c, last.class_id>> \in teacherIn
    /\ Members(rooms, TeachersRoom(last.class_id)) = {}
    /\ last.audience = {}

\* C18: a connect produces the connected envelope for the connecting connection
\* only, and the new connection is in no room.
C18_ConnectedToSelfOnly ==
    last.tag = "connect"
        => /\ last.out = "connected"
           /\ last.audience = {last.sid}
           /\ get_rooms(rooms, last.sid) = {}

\* C18 witness: a connection has connected while another one sits in a room.
C18_Witness ==
    /\ last.tag = "connect"
    /\ \E c \in connected \ {last.sid} : get_rooms(rooms, c) # {}

C12_ConcurrentJoinsAllSucceed ==
    (\A c \in Sids : tasks.pc[c] = "idle")
        => \A R \in ClassIds :
               LET joined == {c \in Sids : <<c, R>> \in tasks.done}
               IN  /\ joined \subseteq Members(rooms, R)
                   /\ joined = Sids => Cardinality(Members(rooms, R)) = NumConns

\* C12 witness: all N handlers were in flight for the same room at the same
\* time, all have finished, and the room holds all N.
C12_Witness ==
    /\ \A c \in Sids : tasks.pc[c] = "idle"
    /\ tasks.together
    /\ \E R \in ClassIds :
           /\ \A c \in Sids : <<c, R>> \in tasks.done /\ tasks.req[c] = R
           /\ Members(rooms, R) = Sids

\* C13: when a disconnect of C races with an in-flight join_class of C, under
\* every interleaving C is a member of no room once both have finished.
C13_DisconnectBeatsJoin ==
    \A c \in Sids :
        (c \notin connected /\ tasks.pc[c] = "idle")
            => \A r \in DOMAIN rooms : c \notin rooms[r]

\* C13 witness: C was disconnected while its join_class handler was spawned but
\* had not run yet, and both have finished.
C13_Witness ==
    \E c \in Sids :
        /\ c \notin connected
        /\ tasks.pc[c] = "idle"
        /\ tasks.raced[c] = "spawned"
        /\ \E d \in connected : get_rooms(rooms, d) # {}

\* C14: within one room delivery order is processing order: of two envelopes
\* for the same room that a connection received, the one processed first was
\* received first.
C14_RoomOrderKept ==
    \A c \in Sids :
        \A i, j \in DOMAIN wire.recv[c] :
            (i < j /\ wire.recv[c][i].room = wire.recv[c][j].room)
                => wire.recv[c][i].seq < wire.recv[c][j].seq

\* C14 witness: a connection received a user_joined and then a poll_updated of
\* the same room, while a packet of another room was processed in between.
C14_Witness ==
    \E c \in Sids :
        \E i, j \in DOMAIN wire.recv[c] :
            /\ i < j
            /\ wire.recv[c][i].room = wire.recv[c][j].room
            /\ wire.recv[c][i].room # NONE
            /\ wire.recv[c][i].out = "user_joined"
            /\ wire.recv[c][j].out = "poll_updated"
            /\ wire.recv[c][j].seq > wire.recv[c][i].seq + 1

\* ------------------------------------------------- protected HTTP routes
\* api/auth_routes.py: extract_token_from_header, decode_jwt_token and the
\* require_auth decorator.

\* Clock values and 'exp' claims range over 0..MaxTime.
MaxTime == 2

\* Roles a token can carry.
AuthRoles == {"student", "teacher", "admin"}

\* An Authorization header is a sequence of atoms: runs of whitespace, words
\* and tokens.  Two neighbouring non-space atoms are always separated by SP.
SP == [k |-> "sp"]
Word(w) == [k |-> "word", w |-> w]
Schemes == {"Bearer", "bearer", "BEARER", "Basic"}

\* A JWT as far as jwt.decode looks at it: whether its signature verifies
\* under JWT_SECRET_KEY and its 'exp', 'role' and 'user_id' claims.
Tokens ==
    [k : {"tok"}, signed : BOOLEAN, exp : 0..MaxTime, role : AuthRoles,
     user_id : UserIds]

\* The headers a request can carry: none, the empty string, a scheme alone,
\* a token alone, scheme and credential (one or two blanks between them), and
\* scheme, credential and a trailing word.
Headers ==
    {[present |-> FALSE, atoms |-> <<>>], [present |-> TRUE, atoms |-> <<>>]}
    \cup {[present |-> TRUE, atoms |-> <<Word(s)>>] : s \in Schemes}
    \cup {[present |-> TRUE, atoms |-> <<t>>] : t \in Tokens}
    \cup {[present |-> TRUE, atoms |-> <<Word(s), SP, Word("abc")>>] : s \in Schemes}
    \cup {[present |-> TRUE, atoms |-> <<Word(h[1]), SP, h[2]>>] : h \in Schemes \X Tokens}
    \cup {[present |-> TRUE, atoms |-> <<Word(h[1]), SP, SP, h[2]>>] : h \in Schemes \X Tokens}
    \cup {[present |-> TRUE, atoms |-> <<Word(h[1]), SP, h[2], SP, Word("abc")>>] :
             h \in Schemes \X Tokens}

\* str.lower() of a header part; a JWT never lowers to 'bearer'.
Lower(a) ==
    IF a.k = "word"
    THEN CASE a.w \in {"Bearer", "bearer", "BEARER"} -> "bearer"
           [] a.w = "Basic" -> "basic"
           [] OTHER -> a.w
    ELSE "<jwt>"

\* auth_header.split(): the non-space parts, in order.
Split(atoms) == SelectSeq(atoms, LAMBDA a : a.k # "sp")

NoToken == [k |-> "none"]

\* Mutant of extract_token_from_header: the scheme is not looked at.
extract_token_from_header_AnyScheme(header) ==
    IF ~header.present \/ header.atoms = <<>>
    THEN NoToken
    ELSE LET parts == Split(header.atoms)
         IN  IF Len(parts) # 2 THEN NoToken ELSE parts[2]

extract_token_from_header(header) ==
    IF ~header.present \/ header.atoms = <<>>
    THEN NoToken
    ELSE LET parts == Split(header.atoms)
         IN  IF Len(parts) # 2 \/ Lower(parts[1]) # "bearer"
             THEN NoToken
             ELSE parts[2]

NoPayload == [ok |-> FALSE, user_id |-> NONE, role |-> NONE]

\* jwt.decode raises InvalidTokenError for what is no JWT or has a bad
\* signature and ExpiredSignatureError once 'exp' is past; both give None.
\* At exp = now the outcome is the installed PyJWT's ('strict': expired).
decode_jwt_token(token, now, strict) ==
    IF /\ token.k = "tok"
       /\ token.signed
       /\ (token.exp > now \/ (~strict /\ token.exp = now))
    THEN [ok |-> TRUE, user_id |-> token.user_id, role |-> token.role]
    ELSE NoPayload

Response(status, error, ran, user_role) ==
    [status |-> status, error |-> error, ran |-> ran, user_role |-> user_role]

\* decorated_function: the response, and whether f was called.
require_auth(required_role, header, now, strict) ==
    LET token == extract_token_from_header(header)
        payload == decode_jwt_token(token, now, strict)
    IN  IF token.k = "none"
        THEN Response(401, "Authentication required", FALSE, NONE)
        ELSE IF ~payload.ok
        THEN Response(401, "Invalid or expired token", FALSE, NONE)
        ELSE IF required_role # NONE /\ payload.role # required_role
        THEN Response(403, "Insufficient permissions", FALSE, NONE)
        ELSE Response(200, NONE, TRUE, payload.role)

\* One request to a route wrapped by require_auth(required_role); the request
\* context is fresh.
request(required_role, header, now, strict) ==
    /\ ~auth.asked
    /\ LET r == require_auth(required_role, header, now, strict)
       IN  auth' = [asked |-> TRUE, header |-> header,
                    required_role |-> required_role, now |-> now,
                    status |-> r.status, error |-> r.error, ran |-> r.ran,
                    user_role |-> r.user_role]
    /\ UNCHANGED <<connected, rooms, teacherIn, last, tasks, wire, store>>

\* The response is sent and the request context is torn down.
teardown_request ==
    /\ auth.asked
    /\ auth' = AuthInit
    /\ UNCHANGED <<connected, rooms, teacherIn, last, tasks, wire, store>>

NextAuth ==
    \/ \E required_role \in AuthRoles \cup {NONE}, header \in Headers,
          now \in 0..MaxTime, strict \in BOOLEAN :
           request(required_role, header, now, strict)
    \/ teardown_request

SpecAuth == Init /\ [][NextAuth]_vars

\* The header reads 'Bearer <token>': a bearer word, whitespace, a token,
\* and nothing else.
WellFormedBearer(header) ==
    /\ header.present
    /\ \E i, j \in DOMAIN header.atoms :
           /\ i < j
           /\ header.atoms[i].k = "word"
           /\ header.atoms[i].w \in {"Bearer", "bearer", "BEARER"}
           /\ header.atoms[j].k = "tok"
           /\ \A n \in DOMAIN header.atoms \ {i, j} : header.atoms[n].k = "sp"

\* The token a well-formed header carries.
CarriedToken(header) ==
    LET j == CHOOSE n \in DOMAIN header.atoms : header.atoms[n].k = "tok"
    IN  header.atoms[j]

\* C19: a route behind require_auth(required_role) runs its handler only for
\* a well-formed bearer header whose token is signed, not expired and, when a
\* role is required, carries that role; otherwise the handler is not called
\* and the answer is 401 or 403, and it is 403 only when the token itself is
\* good (a bad token gives 401 whatever its role).
C19_RequireAuthGuards ==
    auth.asked =>
        LET wf == WellFormedBearer(auth.header)
            tok == CarriedToken(auth.header)
            role_ok == auth.required_role = NONE \/ tok.role = auth.required_role
        IN  /\ auth.ran => /\ wf
                           /\ tok.signed
                           /\ tok.exp >= auth.now
                           /\ role_ok
                           /\ auth.user_role = tok.role
            /\ ~auth.ran => auth.status \in {401, 403}
            /\ auth.status = 403 => wf /\ tok.signed /\ tok.exp >= auth.now /\ ~role_ok
            /\ (~wf \/ ~tok.signed \/ tok.exp < auth.now) => auth.status = 401

\* A request whose token is both expired and of the wrong role was answered 401.
C19_Witness ==
    /\ auth.asked
    /\ WellFormedBearer(auth.header)
    /\ CarriedToken(auth.header).signed
    /\ CarriedToken(auth.header).exp < auth.now
    /\ auth.required_role # NONE
    /\ CarriedToken(auth.header).role # auth.required_role
    /\ auth.status = 401
    /\ ~auth.ran

\* C24: the sender of poll_response_submitted is not checked against the target
\* room: whoever sends it, poll_updated goes to exactly the members of the room at
\* dispatch, so the sender gets it if and only if it is a member itself.
C24_PollSenderUnchecked ==
    (last.tag = "poll_response_submitted" /\ last.class_id # NONE)
        => /\ last.out = "poll_updated"
           /\ last.audience = Members(rooms, last.class_id)
           /\ (last.sid \in last.audience <=> last.sid \in Members(rooms, last.class_id))

\* C24 witness: a connection outside the room sent the poll response; the room's
\* member received poll_updated, the sender did not.
C24_Witness ==
    /\ last.tag = "poll_response_submitted"
    /\ last.class_id # NONE
    /\ last.sid \notin Members(rooms, last.class_id)
    /\ last.audience # {}
    /\ last.audience = Members(rooms, last.class_id)
    /\ last.sid \notin last.audience

\* ------------------------------------------------------ the users collection
\* api/auth_routes.py: register, login and change_password over the USERS
\* collection (find_one, insert_one, update_one of models.database) and bcrypt.
\* register is split at its database calls, where another request can run;
\* login and change_password are taken one request at a time.  The student and
\* teacher profile documents and the created_at / password_changed_at stamps
\* are left out.

\* Documents the collection can hold.
MaxUsers == 2

\* JWT_EXPIRATION_HOURS
JWT_EXPIRATION_HOURS == 24

Emails == {"a@x", "b@x"}
Usernames == {"ann", "bob"}
Passwords == {"secret1", "secret2", "abc"}
Salts == {"s1", "s2"}

\* len() of a password.
PyLen(p) == IF p = "abc" THEN 3 ELSE 7

\* bcrypt.hashpw(password, salt): the hash embeds the salt.
hashpw(password, salt) == [pw |-> password, salt |-> salt]

\* bcrypt.checkpw(password, hashed): hash again with the salt of `hashed`.
checkpw(password, hashed) == hashpw(password, hashed.salt) = hashed

\* str(ObjectId()): an id no document has yet.
ObjectId(users) == Len(users) + 1

NoDoc ==
    [id |-> 0, email |-> NONE, username |-> NONE,
     password_hash |-> hashpw(NONE, NONE), role |-> NONE, last_login |-> NoInt]

\* find_one(USERS, {field: value}): the first document that matches, or None.
find_one(users, field, value) ==
    LET hits == {i \in DOMAIN users : users[i][field] = value}
    IN  IF hits = {} THEN NoDoc
        ELSE users[CHOOSE i \in hits : \A j \in hits : i <= j]

\* insert_one(USERS, doc)
insert_one(users, doc) == Append(users, doc)

\* update_one(USERS, {'_id': id}, {'$set': changes}): the first match is changed.
update_one(users, id, changes) ==
    LET hits == {i \in DOMAIN users : users[i].id = id}
    IN  IF hits = {} THEN users
        ELSE LET n == CHOOSE i \in hits : \A j \in hits : i <= j
             IN  [users EXCEPT ![n] =
                     [f \in DOMAIN users[n] |->
                         IF f \in DOMAIN changes THEN changes[f] ELSE users[n][f]]]

\* generate_jwt_token(user_id, role) at time `now`.
generate_jwt_token(user_id, role, now) ==
    [k |-> "tok", signed |-> TRUE, exp |-> now + JWT_EXPIRATION_HOURS,
     role |-> role, user_id |-> user_id]

\* Request bodies of register: complete, or one required field absent.
RegisterFull ==
    {[email |-> h[1], username |-> h[2], password |-> "secret1", role |-> h[3],
      first_name |-> "Ann", last_name |-> "Lee"] :
        h \in {<<"a@x", "ann", "student">>, <<"a@x", "bob", "teacher">>,
               <<"b@x", "ann", "teacher">>, <<"b@x", "bob", "pirate">>}}
RegisterRequired ==
    {"email", "username", "password", "role", "first_name", "last_name"}
RegisterData ==
    RegisterFull
    \cup {[d EXCEPT ![f] = NONE] :
             d \in {x \in RegisterFull : x.email = "a@x" /\ x.username = "ann"},
             f \in RegisterRequired}

\* The response of a handler, with the collection it started from.
Resp(op, status, data, token, before, user_id) ==
    [op |-> op, status |-> status, data |-> data, token |-> token,
     before |-> before, user_id |-> user_id]

\* The token is left out of the responses of register.

\* Times at which a request is served.
Clock == 1..MaxTime

\* The request bodies of login (every field present or absent) and of
\* change_password (complete, or one field absent).
LoginData ==
    [email : Emails \cup {NONE}, password : {"secret1", "secret2", NONE}]
ChangeData ==
    [old_password : {"secret1", "secret2"}, new_password : Passwords]
    \cup {[old_password |-> NONE, new_password |-> "secret2"],
          [old_password |-> "secret1", new_password |-> NONE]}

\* The Authorization headers sent to change_password: none, a token this server
\* issued at time 0 to one of the users, the first user's token with its 'exp'
\* already past, or with a signature of another key.
ChangeHeaders ==
    {[present |-> FALSE, atoms |-> <<>>]}
    \cup {[present |-> TRUE,
           atoms |-> <<Word("Bearer"), SP, generate_jwt_token(u, "student", 0)>>] :
             u \in 1..MaxUsers}
    \cup {[present |-> TRUE,
           atoms |-> <<Word("Bearer"), SP,
                       [generate_jwt_token(1, "student", 0) EXCEPT !.exp = 0]>>],
          [present |-> TRUE,
           atoms |-> <<Word("Bearer"), SP,
                       [generate_jwt_token(1, "student", 0) EXCEPT !.signed = FALSE]>>]}

\* Whether find_one returned a document.
Found(doc) == doc.id # 0

\* A finished register request leaves the response and frees its slot.
RegisterDone(r, status, data, user_id, users, registered) ==
    store' = [users |-> users,
              reg |-> [store.reg EXCEPT ![r] = [pc |-> "idle", data |-> <<>>]],
              registered |-> registered,
              resp |-> Resp("register", status, data, NoToken, store.users, user_id)]

\* register, up to find_one(USERS, {'email': ...}).
register_begin(r, data) ==
    /\ store.reg[r].pc = "idle"
    /\ Len(store.users) < MaxUsers
    /\ IF \E f \in RegisterRequired : data[f] = NONE
       THEN RegisterDone(r, 400, data, 0, store.users, store.registered)
       ELSE IF data.role \notin {"student", "teacher", "admin"}
       THEN RegisterDone(r, 400, data, 0, store.users, store.registered)
       ELSE IF Found(find_one(store.users, "email", data.email))
       THEN RegisterDone(r, 409, data, 0, store.users, store.registered)
       ELSE store' = [store EXCEPT !.reg[r] = [pc |-> "email_free", data |-> data]]
    /\ UNCHANGED <<connected, rooms, teacherIn, last, tasks, wire, auth>>

\* register: find_one(USERS, {'username': ...}).
register_check_username(r) ==
    LET data == store.reg[r].data
    IN  /\ store.reg[r].pc = "email_free"
        /\ IF Found(find_one(store.users, "username", data.username))
           THEN RegisterDone(r, 409, data, 0, store.users, store.registered)
           ELSE store' = [store EXCEPT !.reg[r].pc = "username_free"]
        /\ UNCHANGED <<connected, rooms, teacherIn, last, tasks, wire, auth>>

\* register: hash, insert_one(USERS, user_doc), token, 201.
register_insert(r, salt) ==
    LET data == store.reg[r].data
        user_id == ObjectId(store.users)
        user_doc == [id |-> user_id, email |-> data.email,
                     username |-> data.username,
                     password_hash |-> hashpw(data.password, salt),
                     role |-> data.role, last_login |-> NoInt]
    IN  /\ store.reg[r].pc = "username_free"
        /\ RegisterDone(r, 201, data, user_id, insert_one(store.users, user_doc),
                        store.registered \cup
                            {[email |-> data.email, password |-> data.password,
                              user_id |-> user_id, role |-> data.role]})
        /\ UNCHANGED <<connected, rooms, teacherIn, last, tasks, wire, auth>>

\* login as a function of the collection: the response and the collection left.
LoginResult(users, data, now) ==
    IF data.email = NONE \/ data.password = NONE
    THEN [status |-> 400, token |-> NoToken, users |-> users]
    ELSE LET user == find_one(users, "email", data.email)
         IN  IF ~Found(user)
             THEN [status |-> 401, token |-> NoToken, users |-> users]
             ELSE IF ~checkpw(data.password, user.password_hash)
             THEN [status |-> 401, token |-> NoToken, users |-> users]
             ELSE [status |-> 200,
                   token |-> generate_jwt_token(user.id, user.role, now),
                   users |-> update_one(users, user.id, [last_login |-> now])]

\* login
login(data, now) ==
    LET res == LoginResult(store.users, data, now)
    IN  /\ store' = [store EXCEPT
                        !.users = res.users,
                        !.resp = Resp("login", res.status, data, res.token,
                                      store.users, 0)]
        /\ UNCHANGED <<connected, rooms, teacherIn, last, tasks, wire, auth>>

\* change_password as a function: the status, the user the token names and the
\* collection left.
ChangeResult(users, header, data, salt, now, strict) ==
    LET token == extract_token_from_header(header)
        payload == decode_jwt_token(token, now, strict)
        user == find_one(users, "id", payload.user_id)
    IN  IF token.k = "none"
        THEN [status |-> 401, user_id |-> 0, users |-> users]
        ELSE IF ~payload.ok
        THEN [status |-> 401, user_id |-> 0, users |-> users]
        ELSE IF data.old_password = NONE \/ data.new_password = NONE
        THEN [status |-> 400, user_id |-> payload.user_id, users |-> users]
        ELSE IF PyLen(data.new_password) < 6
        THEN [status |-> 400, user_id |-> payload.user_id, users |-> users]
        ELSE IF ~Found(user)
        THEN [status |-> 404, user_id |-> payload.user_id, users |-> users]
        ELSE IF ~checkpw(data.old_password, user.password_hash)
        THEN [status |-> 401, user_id |-> payload.user_id, users |-> users]
        ELSE [status |-> 200, user_id |-> payload.user_id,
              users |-> update_one(users, payload.user_id,
                                   [password_hash |-> hashpw(data.new_password, salt)])]

\* change_password
change_password(header, data, salt, now, strict) ==
    LET res == ChangeResult(store.users, header, data, salt, now, strict)
    IN  /\ store' = [store EXCEPT
                        !.users = res.users,
                        !.resp = Resp("change_password", res.status, data,
                                      extract_token_from_header(header),
                                      store.users, res.user_id)]
        /\ UNCHANGED <<connected, rooms, teacherIn, last, tasks, wire, auth>>

\* Concurrent registrations.
NextRegister ==
    \/ \E r \in Reqs, data \in RegisterData : register_begin(r, data)
    \/ \E r \in Reqs : register_check_username(r)
    \/ \E r \in Reqs, salt \in Salts : register_insert(r, salt)

SpecRegister == Init /\ [][NextRegister]_vars

\* Concurrent registrations, and logins.
NextLogin ==
    \/ \E r \in Reqs, data \in RegisterData : register_begin(r, data)
    \/ \E r \in Reqs : register_check_username(r)
    \/ \E r \in Reqs : register_insert(r, "s1")
    \/ \E data \in LoginData, now \in Clock : login(data, now)

SpecLogin == Init /\ [][NextLogin]_vars

\* Concurrent registrations, and password changes.
NextPasswords ==
    \/ \E r \in Reqs, data \in RegisterData : register_begin(r, data)
    \/ \E r \in Reqs : register_check_username(r)
    \/ \E r \in Reqs : register_insert(r, "s1")
    \/ \E header \in ChangeHeaders, data \in ChangeData :
           change_password(header, data, "s2", 1, TRUE)

SpecPasswords == Init /\ [][NextPasswords]_vars

\* The password whose hash the document of user `id` holds.
StoredPassword(users, id) == find_one(users, "id", id).password_hash.pw

\* The password hashes of the collection, document by document.
Hashes(users) == [i \in DOMAIN users |-> users[i].password_hash]

\* C21 (as claimed): whatever the interleaving of register requests, no two
\* user documents share an email or a username, and no two registrations with
\* the same email were both answered 201.
C21_UniqueUnderConcurrency ==
    /\ \A i, j \in DOMAIN store.users :
           i # j => /\ store.users[i].email # store.users[j].email
                    /\ store.users[i].username # store.users[j].username
    /\ \A g, h \in store.registered : g.email = h.email => g = h

\* C22 (as claimed): once register answered 201 for an email, a login with that
\* email and the password now stored for that user is answered 200 with a token
\* of the user_id and role of the registration; a login with an unknown email
\* or a password no document of that email holds is answered 401 and leaves
\* the collection as it was.
C22_RegisterLoginRoundTrip ==
    store.resp.op = "login" =>
        LET d == store.resp.data
            before == store.resp.before
            held == {i \in DOMAIN before : before[i].email = d.email}
        IN  /\ \A g \in store.registered :
                   (d.email = g.email /\ d.password = StoredPassword(before, g.user_id))
                       => /\ store.resp.status = 200
                          /\ store.resp.token.user_id = g.user_id
                          /\ store.resp.token.role = g.role
            /\ (/\ d.email # NONE
                /\ d.password # NONE
                /\ \A i \in held : before[i].password_hash.pw # d.password)
                   => /\ store.resp.status = 401
                      /\ store.users = before

\* C23 (as claimed): change_password changes a stored hash only with a valid
\* token, both fields, a new password of 6 characters or more, an existing user
\* and an old_password that matches; a 401, 400 or 404 leaves the hashes as
\* they were; after a 200, login accepts the new password and rejects the old.
C23_ChangePasswordGuarded ==
    store.resp.op = "change_password" =>
        LET d == store.resp.data
            before == store.resp.before
            tok == store.resp.token
            user == find_one(before, "id", store.resp.user_id)
            email == find_one(store.users, "id", store.resp.user_id).email
        IN  /\ Hashes(store.users) # Hashes(before)
                   => /\ tok.k = "tok"
                      /\ tok.signed
                      /\ tok.exp > MaxTime
                      /\ d.old_password # NONE
                      /\ d.new_password # NONE
                      /\ PyLen(d.new_password) >= 6
                      /\ Found(user)
                      /\ checkpw(d.old_password, user.password_hash)
            /\ store.resp.status \in {401, 400, 404}
                   => Hashes(store.users) = Hashes(before)
            /\ store.resp.status = 200
                   => /\ LoginResult(store.users,
                                     [email |-> email, password |-> d.new_password],
                                     1).status = 200
                      /\ LoginResult(store.users,
                                     [email |-> email, password |-> d.old_password],
                                     1).status = 401

====
